---- MODULE Spec2Model ----
(***************************************************************************)
(* Model of src/main.rs: an egui application (App) whose update() runs     *)
(* once per redraw frame on the UI thread, and two kinds of tokio tasks    *)
(* (init_database, add_item) that talk to a SQLite table `item` through a  *)
(* lazily created pool and report to the UI over an unbounded mpsc         *)
(* channel.  Every await point of a task is one step of the model, so all  *)
(* interleavings of the tasks with each other and with frames are covered. *)
(***************************************************************************)
EXTENDS Integers, Sequences, FiniteSets, TLC

(* ---- bounds ---- *)
MaxTasks == 2      \* insert tasks spawned per process run
MaxRuns  == 2      \* process runs (start .. window closed)
MaxRows  == 2      \* rows the item table may hold
MaxPoolTasks == 6  \* tasks that call get_pool, in the detailed view of it

Names   == {"a", "b"}          \* non-empty texts the user can type
Buffers == Names \cup {""}     \* values of the text input buffer

TaskIds == 1..MaxTasks
PoolTaskIds == 1..MaxPoolTasks

(* ---- state ---- *)
VARIABLES
  running,        \* the process (eframe::run_native) is alive
  run,            \* number of the current process run
  items,          \* App.items
  new_item_name,  \* App.new_item_name
  chan,           \* messages sent on tx and not yet received on rx
  tasks,          \* the add_item tasks of this run, in spawn order
  initPc,         \* position of the init_database task
  loadedItems,    \* local `items` of the init_database task
  POOL,           \* static POOL: TRUE once the OnceCell is initialised
  dbFile,         \* items.db exists
  tableExists,    \* table `item` exists in items.db
  db,             \* rows of table `item`, in rowid order
  bufDrained,     \* new_item_name as the match on try_recv left it in
                  \* the latest update() call, before the form was shown
  sequential,     \* every add_item so far was called with nothing pending
  rowsAtStart,    \* number of rows in the table when this run started
  console,        \* lines this process has written to stdout and stderr
  cell,           \* get_pool in detail: the OnceCell behind POOL
  poolTasks,      \* get_pool in detail: the tasks that call get_pool
  poolsCreated,   \* get_pool in detail: pools connect() has returned
  connsInUse      \* get_pool in detail: connections checked out of pools

vars == <<running, run, items, new_item_name, chan, tasks, initPc,
          loadedItems, POOL, dbFile, tableExists, db, bufDrained,
          sequential, rowsAtStart, console, cell, poolTasks, poolsCreated,
          connsInUse>>

mainVars == <<running, run, items, new_item_name, chan, tasks, initPc,
              loadedItems, POOL, dbFile, tableExists, db, bufDrained,
              sequential, rowsAtStart, console>>
poolVars == <<cell, poolTasks, poolsCreated, connsInUse>>

uiVars   == <<items, new_item_name, bufDrained>>
diskVars == <<dbFile, tableExists, db>>

(* ---- AppMessage ---- *)
ApplicationLoad(its) == [kind |-> "ApplicationLoad", name |-> "", items |-> its]
ItemAdded(n)         == [kind |-> "ItemAdded", name |-> n, items |-> <<>>]
NoMessage            == [kind |-> "None", name |-> "", items |-> <<>>]

(* ---- the console ---- *)
NoOutput == [out |-> 0, err |-> 0]

\* println!
Println(c) == [c EXCEPT !.out = @ + 1]

\* a panic: the panic hook writes the expect() message to stderr
PanicMessage(c) == [c EXCEPT !.err = @ + 1]

Lines(c) == c.out + c.err

(* ---- helpers ---- *)
RECURSIVE SeqCount(_, _)
SeqCount(s, x) ==
  IF s = <<>> THEN 0
  ELSE (IF Head(s) = x THEN 1 ELSE 0) + SeqCount(Tail(s), x)

Reverse(s) == [i \in 1..Len(s) |-> s[Len(s) + 1 - i]]

SeqSet(s) == {s[i] : i \in 1..Len(s)}

NamesOf(rows) == [i \in 1..Len(rows) |-> rows[i].name]

(* ---- the item table ---- *)
\* id INTEGER PRIMARY KEY: SQLite assigns the largest rowid in use plus one
MaxId(rows) ==
  CHOOSE m \in {rows[i].id : i \in 1..Len(rows)} :
    \A i \in 1..Len(rows) : rows[i].id <= m

NextId(rows) == IF rows = <<>> THEN 1 ELSE MaxId(rows) + 1

\* faulty variant: a table that keeps one row per name (UNIQUE, INSERT OR IGNORE)
InsertRowUnique(rows, n) ==
  IF \E i \in 1..Len(rows) : rows[i].name = n
  THEN rows
  ELSE Append(rows, [id |-> NextId(rows), name |-> n])

\* faulty variant: REPLACE INTO item (id, name) VALUES(1, ?)
InsertRowReplacing(rows, n) ==
  IF rows = <<>> THEN <<[id |-> 1, name |-> n]>>
  ELSE [rows EXCEPT ![1] = [id |-> 1, name |-> n]]

\* INSERT INTO item (name) VALUES(?)
InsertRow(rows, n) == Append(rows, [id |-> NextId(rows), name |-> n])

\* faulty variant: a load that misses the newest row
SelectNamesButLast(rows) == [i \in 1..(Len(rows) - 1) |-> rows[i].name]

\* SELECT name FROM item: a table scan, which SQLite does in rowid order
SelectNames(rows) == NamesOf(rows)

(* ---- App::update, the message part ---- *)
\* faulty variant: a drain loop that empties the channel in one frame
AfterRecvAll(c) == <<>>

\* faulty variant: rx.recv(), which parks the UI thread until a message comes
RecvBlocks(c) == c # <<>>

\* rx.try_recv() returns at once, with a message or with Err(Empty)
RecvReturns(c) == TRUE

TryRecv(c) == IF c = <<>> THEN NoMessage ELSE Head(c)

AfterRecv(c) == IF c = <<>> THEN c ELSE Tail(c)

\* faulty variant: a match without the ItemAdded arm
DrainItemsLoadOnly(its, ev) ==
  IF ev.kind = "ApplicationLoad" THEN ev.items ELSE its

\* faulty variant: the new name pushed to the end of the list
DrainItemsAppend(its, ev) ==
  CASE ev.kind = "ApplicationLoad" -> ev.items
    [] ev.kind = "ItemAdded"       -> its \o <<ev.name>>
    [] OTHER                       -> its

\* faulty variant: a load that keeps the names already shown (extend)
DrainItemsMerge(its, ev) ==
  CASE ev.kind = "ApplicationLoad" -> ev.items \o its
    [] ev.kind = "ItemAdded"       -> <<ev.name>> \o its
    [] OTHER                       -> its

DrainItems(its, ev) ==
  CASE ev.kind = "ApplicationLoad" -> ev.items
    [] ev.kind = "ItemAdded"       -> <<ev.name>> \o its
    [] OTHER                       -> its

\* faulty variant: the buffer cleared only while it still holds the added name
DrainBufferIfSame(buf, ev) ==
  IF ev.kind = "ItemAdded" /\ buf = ev.name THEN "" ELSE buf

DrainBuffer(buf, ev) == IF ev.kind = "ItemAdded" THEN "" ELSE buf

\* both arms print the message they got; no message, no line
DrainConsole(c, ev) == IF ev.kind = "None" THEN c ELSE Println(c)

(* ---- App::update, the form part ---- *)
\* the names add_item is called with, in call order
Submissions(buf, click, enter) ==
  (IF click /\ buf # "" THEN <<buf>> ELSE <<>>) \o
  (IF enter THEN <<buf>> ELSE <<>>)

\* faulty variant: the buffer cleared at once when add_item is called
BufferAfterSubmitCleared(buf, click, enter) ==
  IF Submissions(buf, click, enter) # <<>> THEN "" ELSE buf

\* add_item gets a copy (to_string); the buffer itself is not touched
BufferAfterSubmit(buf, click, enter) == buf

(* ---- add_item: tokio::spawn ---- *)
IdleTask == [pc |-> "idle", name |-> ""]

NumSpawned(ts) == Cardinality({t \in TaskIds : ts[t].pc # "idle"})

Spawn(ts, ns) ==
  LET k == NumSpawned(ts) IN
  [t \in TaskIds |->
     IF t > k /\ t <= k + Len(ns)
     THEN [pc |-> "get_pool", name |-> ns[t - k]]
     ELSE ts[t]]

NothingPending(ts, c) ==
  /\ \A t \in TaskIds : ts[t].pc \in {"idle", "done"}
  /\ \A i \in 1..Len(c) : c[i].kind # "ItemAdded"

\* one call of update() in which the user leaves `edited` in the text
\* input, clicks the button (click) and presses Enter as the input loses
\* focus (enter)
FrameWith(edited, click, enter) ==
  LET ev   == TryRecv(chan)
      subs == Submissions(edited, click, enter)
  IN
  /\ running
  /\ RecvReturns(chan)
  /\ NumSpawned(tasks) + Len(subs) <= MaxTasks
  /\ chan' = AfterRecv(chan)
  /\ items' = DrainItems(items, ev)
  /\ bufDrained' = DrainBuffer(new_item_name, ev)
  /\ console' = DrainConsole(console, ev)
  /\ new_item_name' = BufferAfterSubmit(edited, click, enter)
  /\ tasks' = Spawn(tasks, subs)
  /\ sequential' =
       IF subs = <<>> THEN sequential
       ELSE sequential /\ Len(subs) = 1 /\ NothingPending(tasks, chan')
  /\ UNCHANGED <<running, run, initPc, loadedItems, POOL, dbFile,
                 tableExists, db, rowsAtStart>>
  /\ UNCHANGED poolVars

Frame ==
  \E edited \in Buffers, click \in BOOLEAN, enter \in BOOLEAN :
    FrameWith(edited, click, enter)

(* ---- panics in spawned tasks ---- *)
\* faulty variant: a panic that takes the process down (panic = "abort")
AfterTaskPanicAborts(alive) == FALSE

\* expect() on an Err panics inside a tokio::spawn task: the runtime catches
\* the unwinding panic, the task ends, and the process goes on as it was
AfterTaskPanic(alive) == alive

(* ---- get_pool ---- *)
\* POOL.get_or_init: an initialised cell is returned as it is; otherwise
\* connect(url) is tried, which cannot succeed without the database file
\* and may fail anyway; on failure expect() panics and the cell stays empty
GetPoolOutcomes(pool, file) ==
  IF pool THEN {TRUE} ELSE IF file THEN {TRUE, FALSE} ELSE {FALSE}

(* ---- add_item, the task body ---- *)
\* the INSERT needs the table and may fail anyway; a table holding MaxRows
\* rows takes no more (a full disk)
InsertOutcomes(table, rows) ==
  IF table /\ Len(rows) < MaxRows THEN {TRUE, FALSE} ELSE {FALSE}

\* faulty variant: the event sent whatever the INSERT returned
AfterInsertAlwaysSends(ok) == "send"

\* if item.is_ok() { tx.send(..) }: only a successful INSERT goes on to send
\* faulty variant: the test of the result negated (item.is_err())
AfterInsertInverted(ok) == IF ok THEN "failed" ELSE "send"

AfterInsert(ok) == IF ok THEN "send" ELSE "failed"

TaskGetPool(t) ==
  /\ running
  /\ tasks[t].pc = "get_pool"
  /\ \E ok \in GetPoolOutcomes(POOL, dbFile) :
       /\ POOL' = ok
       /\ tasks' = [tasks EXCEPT ![t].pc = IF ok THEN "insert" ELSE "panicked"]
       /\ running' = IF ok THEN running ELSE AfterTaskPanic(running)
       /\ console' = IF ok THEN console ELSE PanicMessage(console)
  /\ UNCHANGED <<run, chan, initPc, loadedItems, sequential,
                 rowsAtStart, uiVars, diskVars>>
  /\ UNCHANGED poolVars

TaskInsert(t) ==
  /\ running
  /\ tasks[t].pc = "insert"
  /\ \E ok \in InsertOutcomes(tableExists, db) :
       /\ db' = IF ok THEN InsertRow(db, tasks[t].name) ELSE db
       /\ tasks' = [tasks EXCEPT ![t].pc = AfterInsert(ok)]
  /\ UNCHANGED <<running, run, chan, initPc, loadedItems, POOL, dbFile,
                 tableExists, sequential, rowsAtStart, uiVars>>
  /\ UNCHANGED console
  /\ UNCHANGED poolVars

TaskSend(t) ==
  /\ running
  /\ tasks[t].pc = "send"
  /\ chan' = Append(chan, ItemAdded(tasks[t].name))
  /\ tasks' = [tasks EXCEPT ![t].pc = "done"]
  /\ UNCHANGED <<running, run, initPc, loadedItems, POOL, sequential,
                 rowsAtStart, uiVars, diskVars>>
  /\ UNCHANGED console
  /\ UNCHANGED poolVars

(* ---- init_database, the task body ---- *)
\* Sqlite::database_exists(URL).await.unwrap_or(false)
ExistsOutcomes(file) == {file, FALSE}

InitStep(pc, ok, next) ==
  /\ initPc = pc
  /\ initPc' = IF ok THEN next ELSE "panicked"
  /\ running' = IF ok THEN running ELSE AfterTaskPanic(running)
  /\ console' = IF ok THEN console ELSE PanicMessage(console)

InitExists ==
  /\ running
  /\ initPc = "exists"
  /\ \E found \in ExistsOutcomes(dbFile) :
       initPc' = IF found THEN "get_pool" ELSE "create"
  /\ UNCHANGED <<running, run, chan, tasks, loadedItems, POOL, sequential,
                 rowsAtStart, uiVars, diskVars>>
  /\ UNCHANGED console
  /\ UNCHANGED poolVars

InitCreate ==
  /\ running
  /\ \E ok \in BOOLEAN :
       /\ InitStep("create", ok, "get_pool")
       /\ dbFile' = (dbFile \/ ok)
  /\ UNCHANGED <<run, chan, tasks, loadedItems, POOL, tableExists, db,
                 sequential, rowsAtStart, uiVars>>
  /\ UNCHANGED poolVars

InitGetPool ==
  /\ running
  /\ \E ok \in GetPoolOutcomes(POOL, dbFile) :
       /\ InitStep("get_pool", ok, "schema")
       /\ POOL' = ok
  /\ UNCHANGED <<run, chan, tasks, loadedItems, sequential, rowsAtStart,
                 uiVars, diskVars>>
  /\ UNCHANGED poolVars

InitSchema ==
  /\ running
  /\ \E ok \in BOOLEAN :
       /\ InitStep("schema", ok, "select")
       /\ tableExists' = (tableExists \/ ok)
  /\ UNCHANGED <<run, chan, tasks, loadedItems, POOL, dbFile, db,
                 sequential, rowsAtStart, uiVars>>
  /\ UNCHANGED poolVars

InitSelect ==
  /\ running
  /\ \E ok \in BOOLEAN :
       /\ InitStep("select", ok, "send")
       /\ loadedItems' = IF ok THEN SelectNames(db) ELSE loadedItems
  /\ UNCHANGED <<run, chan, tasks, POOL, sequential, rowsAtStart,
                 uiVars, diskVars>>
  /\ UNCHANGED poolVars

InitSend ==
  /\ running
  /\ initPc = "send"
  /\ chan' = Append(chan, ApplicationLoad(loadedItems))
  /\ loadedItems' = <<>>
  /\ initPc' = "done"
  /\ UNCHANGED <<running, run, tasks, POOL, sequential, rowsAtStart,
                 uiVars, diskVars>>
  /\ UNCHANGED console
  /\ UNCHANGED poolVars

(* ---- process life cycle ---- *)
\* faulty variant: App::new without the call of init_database
FreshProcessWithoutInit(pc) ==
  /\ items' = <<>>
  /\ new_item_name' = ""
  /\ chan' = <<>>
  /\ tasks' = [t \in TaskIds |-> IdleTask]
  /\ initPc' = "none"
  /\ loadedItems' = <<>>
  /\ POOL' = FALSE
  /\ bufDrained' = ""
  /\ sequential' = TRUE
  /\ console' = NoOutput

\* App::default and App::new: empty list, empty buffer, fresh channel, and
\* init_database spawned
FreshProcess(pc) ==
  /\ items' = <<>>
  /\ new_item_name' = ""
  /\ chan' = <<>>
  /\ tasks' = [t \in TaskIds |-> IdleTask]
  /\ initPc' = pc
  /\ loadedItems' = <<>>
  /\ POOL' = FALSE
  /\ bufDrained' = ""
  /\ sequential' = TRUE
  /\ console' = NoOutput

\* the window is closed: run_native returns and the process ends with all
\* its tasks; only items.db is left
Close ==
  /\ running
  /\ run < MaxRuns
  /\ running' = FALSE
  /\ FreshProcess("none")
  /\ UNCHANGED <<run, rowsAtStart, diskVars>>
  /\ UNCHANGED poolVars

\* main: the program is started again
Start ==
  /\ ~running
  /\ run < MaxRuns
  /\ running' = TRUE
  /\ run' = run + 1
  /\ rowsAtStart' = Len(db)
  /\ FreshProcess("exists")
  /\ UNCHANGED diskVars
  /\ UNCHANGED poolVars

(* ---- get_pool in detail ---- *)
\* Spec takes a call of get_pool as one step, the step in which it returns.
\* PoolSpec looks inside: the tasks of one process that call get_pool (the
\* init_database task, which then runs two statements on the pool, and
\* add_item tasks, which run one), the OnceCell that get_or_init guards, and
\* the connections the statements check out of the pool.

\* .max_connections(5)
MaxConnections == 5

EmptyCell == [state |-> "empty", pool |-> 0]

\* statements a task runs on the pool: CREATE TABLE and SELECT in
\* init_database, INSERT in add_item
Statements(t) == IF t = 1 THEN 2 ELSE 1

PoolTasksAtStart ==
  [t \in PoolTaskIds |-> [pc |-> "get_pool", pool |-> 0, left |-> Statements(t)]]

\* faulty variant: a lazily set static without the cell's lock, where every
\* caller that finds no pool yet connects on its own
MayInitUnlocked(state) == state # "ready"

\* get_or_init runs the caller's future only on an empty cell; while another
\* caller's future is running the caller waits
MayInit(state) == state = "empty"

\* POOL.get_or_init(..): a ready cell hands out its pool; on an empty cell
\* the caller starts connect(url)
PoolGetOrInit(t) ==
  /\ poolTasks[t].pc = "get_pool"
  /\ \/ /\ cell.state = "ready"
        /\ poolTasks' = [poolTasks EXCEPT ![t].pc = "acquire",
                                          ![t].pool = cell.pool]
        /\ cell' = cell
     \/ /\ cell.state # "ready"
        /\ MayInit(cell.state)
        /\ poolTasks' = [poolTasks EXCEPT ![t].pc = "connecting"]
        /\ cell' = [cell EXCEPT !.state = "running"]
  /\ UNCHANGED <<poolsCreated, connsInUse>>
  /\ UNCHANGED mainVars

\* connect(url).await.expect(..): a new pool goes into the cell, or the
\* task panics and the cell is empty again for the next caller
PoolConnect(t) ==
  /\ poolTasks[t].pc = "connecting"
  /\ \E ok \in BOOLEAN :
       IF ok
       THEN /\ poolsCreated' = poolsCreated + 1
            /\ cell' = IF cell.state = "ready" THEN cell
                       ELSE [state |-> "ready", pool |-> poolsCreated + 1]
            /\ poolTasks' = [poolTasks EXCEPT ![t].pc = "acquire",
                                              ![t].pool = cell'.pool]
       ELSE /\ poolsCreated' = poolsCreated
            /\ cell' = IF cell.state = "ready" THEN cell ELSE EmptyCell
            /\ poolTasks' = [poolTasks EXCEPT ![t].pc = "panicked"]
  /\ UNCHANGED connsInUse
  /\ UNCHANGED mainVars

Holding(p) ==
  Cardinality({u \in PoolTaskIds :
                 poolTasks[u].pc = "query" /\ poolTasks[u].pool = p})

\* execute(pool) / fetch_all(pool): the statement waits until the pool has
\* a connection for it
PoolAcquire(t) ==
  /\ poolTasks[t].pc = "acquire"
  /\ Holding(poolTasks[t].pool) < MaxConnections
  /\ poolTasks' = [poolTasks EXCEPT ![t].pc = "query"]
  /\ connsInUse' = connsInUse + 1
  /\ UNCHANGED <<cell, poolsCreated>>
  /\ UNCHANGED mainVars

\* the statement ends, well or not, and its connection goes back
PoolRelease(t) ==
  /\ poolTasks[t].pc = "query"
  /\ poolTasks' = [poolTasks EXCEPT
                     ![t].left = @ - 1,
                     ![t].pc = IF poolTasks[t].left > 1 THEN "acquire"
                               ELSE "done"]
  /\ connsInUse' = connsInUse - 1
  /\ UNCHANGED <<cell, poolsCreated>>
  /\ UNCHANGED mainVars

PoolNext ==
  \E t \in PoolTaskIds :
    PoolGetOrInit(t) \/ PoolConnect(t) \/ PoolAcquire(t) \/ PoolRelease(t)

Init ==
  /\ running = TRUE
  /\ run = 1
  /\ items = <<>>
  /\ new_item_name = ""
  /\ chan = <<>>
  /\ tasks = [t \in TaskIds |-> IdleTask]
  /\ initPc = "exists"
  /\ loadedItems = <<>>
  /\ POOL = FALSE
  /\ dbFile = FALSE
  /\ tableExists = FALSE
  /\ db = <<>>
  /\ bufDrained = ""
  /\ sequential = TRUE
  /\ rowsAtStart = 0
  /\ console = NoOutput
  /\ cell = EmptyCell
  /\ poolTasks = PoolTasksAtStart
  /\ poolsCreated = 0
  /\ connsInUse = 0

TaskStep == \E t \in TaskIds : TaskGetPool(t) \/ TaskInsert(t) \/ TaskSend(t)

InitTaskStep ==
  InitExists \/ InitCreate \/ InitGetPool \/ InitSchema \/ InitSelect \/ InitSend

Next == Frame \/ TaskStep \/ InitTaskStep \/ Close \/ Start

Spec == Init /\ [][Next]_vars

PoolSpec == Init /\ [][PoolNext]_vars

\* one run of a process whose window stays open, in which frames keep
\* coming (eframe calls update() again and again) and a task that has its
\* INSERT result is polled on (tokio runs every ready task): it reaches its
\* tx.send
LiveNext == Frame \/ TaskStep \/ InitTaskStep

LiveSpec ==
  /\ Init
  /\ [][LiveNext]_vars
  /\ WF_vars(Frame)
  /\ \A t \in TaskIds : WF_vars(TaskSend(t))

(* ======================= properties ======================= *)

Spawned(t)   == tasks[t].pc # "idle"
Submitted    == [i \in 1..NumSpawned(tasks) |-> tasks[i].name]
Finished(t)  == tasks[t].pc \in {"idle", "done", "failed", "panicked"}
HasLoad(c)   == \E i \in 1..Len(c) : c[i].kind = "ApplicationLoad"
RowsOfRun    == SubSeq(db, rowsAtStart + 1, Len(db))
EarlierNames == {db[i].name : i \in 1..rowsAtStart}
Quiescent    ==
  /\ running
  /\ initPc \in {"done", "panicked"}
  /\ \A t \in TaskIds : Finished(t)
  /\ chan = <<>>
AllSucceeded ==
  /\ initPc = "done"
  /\ \A t \in TaskIds : tasks[t].pc \in {"idle", "done"}

\* C1: a submission made while the input buffer is empty spawns no insert
\* task and writes no row; add_item is called with the buffer as it is at
\* the submission, so no task and no row ever carries the empty name.
C1_EmptySubmitSpawnsNothing ==
  /\ \A t \in TaskIds : Spawned(t) => tasks[t].name # ""
  /\ \A i \in 1..Len(db) : db[i].name # ""

\* C2: whenever no background task is in flight and the channel is empty,
\* the displayed list and the item table hold the same names, each the same
\* number of times.  It is stated for the runs in which the startup load and
\* every insert succeeded: the interleavings alone are to decide it.
C2_ListConvergesToTable ==
  (Quiescent /\ AllSucceeded) =>
    \A n \in Buffers : SeqCount(items, n) = SeqCount(NamesOf(db), n)

\* C3: the frame that drains an ItemAdded event leaves that event's name as
\* the first element of the displayed list.
C3_AddedNameIsHead ==
  [][(Frame /\ chan # <<>> /\ Head(chan).kind = "ItemAdded")
       => (items' # <<>> /\ Head(items') = Head(chan).name)]_vars

C3_Witness ==
  /\ Len(items) >= 2
  /\ chan = <<>>
  /\ \E t \in TaskIds :
       /\ tasks[t].pc = "done"
       /\ tasks[t].name # ""
       /\ Head(items) = tasks[t].name
       /\ items[2] # tasks[t].name

\* C4: in a run that started on an empty table, after N >= 1 inserts that
\* each succeeded and were drained before the next submission, the displayed
\* list is the N submitted names in reverse submission order, wherever the
\* startup load falls.
C4_ReverseSubmissionOrder ==
  (/\ running
   /\ rowsAtStart = 0
   /\ sequential
   /\ NumSpawned(tasks) >= 1
   /\ NothingPending(tasks, chan))
    => items = Reverse(Submitted)

\* C5: a step in which a task's INSERT fails (the task leaves "insert" and
\* no row is added) ends the task without an event and without any change
\* to the displayed list or the input buffer; the task takes no later step;
\* and while such a task exists the process runs on: a frame can be taken,
\* and so can a frame that submits a name, as long as the model has a task
\* slot left.
C5_FailedInsertIsSilent ==
  /\ [][\A t \in TaskIds :
          /\ (tasks[t].pc = "insert" /\ tasks'[t].pc # "insert"
                /\ db' = db /\ running')
               => /\ tasks'[t].pc = "failed"
                  /\ UNCHANGED <<chan, items, new_item_name>>
          /\ (tasks[t].pc = "failed" /\ running')
               => (tasks'[t] = tasks[t])]_vars
  /\ []((\E t \in TaskIds : tasks[t].pc = "failed")
          => /\ running
             /\ ENABLED FrameWith(new_item_name, FALSE, FALSE)
             /\ (NumSpawned(tasks) < MaxTasks
                   => ENABLED FrameWith("a", TRUE, FALSE)))

C5_Witness ==
  /\ tasks[1].pc = "failed"
  /\ tasks[2].pc = "done"
  /\ items = <<tasks[2].name>>
  /\ chan = <<>>

\* C6 as claimed: once the startup task has failed, the process is gone.
C6_StartupFailureAbortsProcess == (initPc = "panicked") => ~running

\* C6 as amended: a failure of the startup task ends that task alone.  The
\* failing step leaves the process running and the UI state, the channel
\* and the insert tasks as they were; the failed task takes no further step
\* and no ApplicationLoad event of it is in the channel; frames and
\* submissions remain possible.
C6_StartupFailureEndsTaskOnly ==
  /\ [][/\ (initPc # "panicked" /\ initPc' = "panicked")
             => /\ running'
                /\ UNCHANGED <<items, new_item_name, chan, tasks>>
        /\ (initPc = "panicked" /\ running')
             => initPc' = "panicked"]_vars
  /\ [](initPc = "panicked"
          => /\ running
             /\ ~HasLoad(chan)
             /\ ENABLED FrameWith(new_item_name, FALSE, FALSE)
             /\ (NumSpawned(tasks) < MaxTasks
                   => ENABLED FrameWith("a", TRUE, FALSE)))

C6_Witness ==
  /\ initPc = "panicked"
  /\ running
  /\ \E t \in TaskIds : tasks[t].pc = "done" /\ items = <<tasks[t].name>>

\* C7: in a run after a restart, once the ApplicationLoad event has been
\* drained and before anything is submitted, the displayed names are, as a
\* set, the names of the rows committed in earlier runs.
C7_RestartRoundTrip ==
  (/\ running
   /\ run > 1
   /\ initPc = "done"
   /\ ~HasLoad(chan)
   /\ NumSpawned(tasks) = 0)
    => SeqSet(items) = EarlierNames

C7_Witness ==
  /\ running
  /\ run > 1
  /\ initPc = "done"
  /\ chan = <<>>
  /\ NumSpawned(tasks) = 0
  /\ rowsAtStart = 2
  /\ SeqSet(items) = {"a", "b"}

\* C8: nothing deduplicates.  Every insert of this run that succeeded has a
\* row of its own: for each name the table gained as many rows as insert
\* tasks with that name got past their INSERT, and all ids differ; and a
\* frame that drains an ItemAdded event prepends its name to the list as it
\* is, also when the name is displayed already.  The witness is the state
\* after a double submission of "a": two rows named "a", and both events
\* still in the channel.
C8_NoDeduplication ==
  /\ [](running =>
          /\ \A n \in Buffers :
               SeqCount(NamesOf(RowsOfRun), n) =
                 Cardinality({t \in TaskIds :
                    tasks[t].name = n /\ tasks[t].pc \in {"send", "done"}})
          /\ \A i, j \in 1..Len(db) : db[i].id = db[j].id => i = j)
  /\ [][(Frame /\ chan # <<>> /\ Head(chan).kind = "ItemAdded")
          => items' = <<Head(chan).name>> \o items]_vars

C8_Witness ==
  /\ tasks[1].name = "a" /\ tasks[2].name = "a"
  /\ chan = <<ItemAdded("a"), ItemAdded("a")>>
  /\ Len(db) = 2
  /\ db[1].name = "a" /\ db[2].name = "a" /\ db[1].id # db[2].id
  /\ "a" \notin SeqSet(items)

\* C9: a frame takes exactly the oldest event off a non-empty channel and
\* applies it, leaves the other events queued in their order, and leaves an
\* empty channel empty; no step other than a frame takes an event off the
\* channel of a running process.
C9_OneEventPerFrame ==
  [][/\ (Frame /\ chan # <<>>)
          => /\ chan' = Tail(chan)
             /\ Head(chan).kind = "ItemAdded"
                  => items' = <<Head(chan).name>> \o items
             /\ Head(chan).kind = "ApplicationLoad"
                  => items' = Head(chan).items
     /\ (Frame /\ chan = <<>>) => (chan' = <<>> /\ items' = items)
     /\ (running' /\ Len(chan') < Len(chan)) => Frame]_vars

C9_Witness ==
  /\ Len(chan) = 2
  /\ Len(items) = 1
  /\ initPc = "done"
  /\ \A t \in TaskIds : tasks[t].pc = "done"

\* C10: a frame in which add_item is called leaves the input buffer holding
\* the submitted text; the drain step of a frame empties the buffer when it
\* takes an ItemAdded event off the channel and leaves it as it was
\* otherwise (an ApplicationLoad event, or none); and outside frames the
\* buffer of a running process does not change.
C10_BufferClearedOnlyByItemAdded ==
  [][/\ Frame =>
          /\ \A t \in TaskIds :
               (tasks[t].pc = "idle" /\ tasks'[t].pc # "idle")
                 => new_item_name' = tasks'[t].name
          /\ bufDrained' =
               IF chan # <<>> /\ Head(chan).kind = "ItemAdded"
               THEN "" ELSE new_item_name
     /\ (running' /\ new_item_name' # new_item_name) => Frame]_vars

C10_Witness ==
  /\ new_item_name = "a"
  /\ tasks[1] = [pc |-> "send", name |-> "a"]
  /\ bufDrained = "a"
  /\ items = <<"b">>

\* C11: a frame never waits for a background task.  Whatever the tasks are
\* doing (in flight and perhaps hung, failed, panicked, finished), a frame
\* of the running process can be taken; and a frame that finds the channel
\* empty leaves the displayed list as it is, and its drain step leaves the
\* input buffer as it is.
C11_FrameNeverWaits ==
  /\ [](running => ENABLED FrameWith(new_item_name, FALSE, FALSE))
  /\ [][(Frame /\ chan = <<>>)
          => /\ items' = items
             /\ bufDrained' = new_item_name
             /\ chan' = <<>>]_vars

C11_Witness ==
  /\ running
  /\ chan = <<>>
  /\ initPc = "panicked"
  /\ tasks[1] = [pc |-> "insert", name |-> "a"]
  /\ tasks[2] = [pc |-> "failed", name |-> "a"]
  /\ new_item_name = "b"
  /\ bufDrained = "a"

InitRank(pc) ==
  CASE pc = "none"     -> 0
    [] pc = "exists"   -> 1
    [] pc = "create"   -> 2
    [] pc = "get_pool" -> 3
    [] pc = "schema"   -> 4
    [] pc = "select"   -> 5
    [] pc = "send"     -> 6
    [] pc = "done"     -> 7
    [] pc = "panicked" -> 8

LoadsIn(c) == Cardinality({i \in 1..Len(c) : c[i].kind = "ApplicationLoad"})

\* C12: every run has its one startup task.  The task exists in every state
\* of a running process; the step that starts a process leaves the task at
\* its beginning and no insert task spawned; within a run the task only
\* moves forward, so it is never spawned again; and an ApplicationLoad event
\* enters the channel only by the task's send step, which the task takes
\* once, so the channel never holds two of them.
C12_OneStartupTaskPerRun ==
  /\ [](running => initPc # "none")
  /\ [](LoadsIn(chan) <= 1)
  /\ [][/\ (~running /\ running')
             => (initPc' = "exists" /\ NumSpawned(tasks') = 0)
        /\ (running /\ running')
             => InitRank(initPc') >= InitRank(initPc)
        /\ (LoadsIn(chan') > LoadsIn(chan))
             => /\ initPc = "send" /\ initPc' = "done"
                /\ LoadsIn(chan') = LoadsIn(chan) + 1]_vars

C12_Witness ==
  /\ run = 2
  /\ initPc = "done"
  /\ LoadsIn(chan) = 1
  /\ NumSpawned(tasks) = 2

\* C13: whatever the interleaving of the tasks that call get_pool, connect()
\* returns at most one pool in a process, every task that is past get_pool
\* holds that pool, and never are more than 5 connections checked out.
C13_OnePoolFiveConnections ==
  /\ poolsCreated <= 1
  /\ \A t \in PoolTaskIds :
       poolTasks[t].pc \in {"acquire", "query", "done"}
         => (cell.state = "ready" /\ poolTasks[t].pool = 1 /\ cell.pool = 1)
  /\ connsInUse <= 5
  /\ connsInUse = Cardinality({t \in PoolTaskIds : poolTasks[t].pc = "query"})

C13_Witness ==
  /\ poolsCreated = 1
  /\ connsInUse = 5
  /\ \E t \in PoolTaskIds : poolTasks[t].pc = "acquire"

\* C14: an insert task goes its way whatever the startup task has done so
\* far: in every state its call of get_pool can return the pool, and its
\* INSERT can succeed (as long as the table of the model has room).
C14_InsertIndependentOfStartup ==
  \A t \in TaskIds :
    /\ (running /\ tasks[t].pc = "get_pool")
         => ENABLED (TaskGetPool(t) /\ tasks'[t].pc = "insert")
    /\ (running /\ tasks[t].pc = "insert" /\ Len(db) < MaxRows)
         => ENABLED (TaskInsert(t) /\ tasks'[t].pc = "send")

InChan(n) == \E i \in 1..Len(chan) : chan[i] = ItemAdded(n)

\* C15: with frames that keep coming and tasks that are run on, an insert
\* task whose INSERT has succeeded leads to a state in which its event has
\* been sent, no event with its name is left in the channel, and its name
\* is the first of the displayed list.
C15_AddedEventuallyShown ==
  \A t \in TaskIds :
    (tasks[t].pc = "send")
      ~> (/\ tasks[t].pc = "done"
          /\ ~InChan(tasks[t].name)
          /\ items # <<>>
          /\ Head(items) = tasks[t].name)

C15_Witness ==
  /\ tasks[1] = [pc |-> "done", name |-> "a"]
  /\ tasks[2] = [pc |-> "done", name |-> "b"]
  /\ chan = <<>>
  /\ items = <<"b", "a">>

\* C16: the item table only grows.  No step removes or changes a row: every
\* row keeps its place, its id and its name, across restarts too; and in
\* every state the ids rise strictly in insertion order, so they are
\* pairwise distinct and a later row has a larger id than every earlier one.
C16_TableOnlyGrows ==
  /\ [][/\ Len(db') >= Len(db)
        /\ \A i \in 1..Len(db) : db'[i] = db[i]]_vars
  /\ [](\A i, j \in 1..Len(db) : i < j => db[i].id < db[j].id)

C16_Witness ==
  /\ run = 2
  /\ rowsAtStart = 1
  /\ Len(db) = 2
  /\ db[1].name = db[2].name
  /\ db[1].id < db[2].id

\* C17: a query that fails leaves a line on the console and nothing else:
\* the step in which a task's INSERT fails, and the step in which the
\* startup task's SELECT fails, write a line, leave the displayed list and
\* the input buffer alone, and end the task, which does not try again.
C17_FailedQueryIsLogged ==
  [][/\ \A t \in TaskIds :
          (tasks[t].pc = "insert" /\ tasks'[t].pc # "insert"
             /\ db' = db /\ running')
            => /\ Lines(console') > Lines(console)
               /\ UNCHANGED <<items, new_item_name>>
               /\ tasks'[t].pc \notin {"get_pool", "insert"}
     /\ (initPc = "select" /\ initPc' # "select" /\ initPc' # "send"
           /\ running')
          => /\ Lines(console') > Lines(console)
             /\ UNCHANGED <<items, new_item_name>>
             /\ initPc' = "panicked"]_vars

\* a step of the running process that takes an event of this kind off the
\* channel; only a frame shortens the channel of a process that stays up
Drains(kind) ==
  /\ running /\ running'
  /\ chan # <<>> /\ chan' = Tail(chan)
  /\ Head(chan).kind = kind

\* ItemAdded events with this name sent so far in this run
SentAdded(n) ==
  Cardinality({t \in TaskIds : tasks[t].pc = "done" /\ tasks[t].name = n})

\* C18: the step that drains an ApplicationLoad event leaves the displayed
\* list equal to the event's sequence, which is the sequence the startup
\* task's SELECT returned; whatever the list held before, names prepended by
\* ItemAdded events included, is in the list afterwards only as far as it
\* is in that sequence.
C18_LoadReplacesList ==
  [][/\ Drains("ApplicationLoad")
          => /\ items' = Head(chan).items
             /\ \A n \in Buffers :
                  SeqCount(items', n) = SeqCount(Head(chan).items, n)
     /\ (initPc = "select" /\ initPc' = "send")
          => loadedItems' = NamesOf(db)
     /\ (initPc = "send" /\ initPc' = "done")
          => chan' = Append(chan, ApplicationLoad(loadedItems))]_vars

C18_Witness ==
  /\ running
  /\ initPc = "done"
  /\ chan = <<>>
  /\ items = <<>>
  /\ tasks[1] = [pc |-> "done", name |-> "a"]
  /\ tasks[2].pc = "idle"
  /\ NamesOf(db) = <<"a">>

\* C19: in every state and for every name, the ItemAdded events with that
\* name sent so far in this run are at most as many as the rows with that
\* name in the item table.
C19_EventOnlyAfterCommit ==
  \A n \in Buffers : SentAdded(n) <= SeqCount(NamesOf(db), n)

C19_Witness ==
  /\ run = 1
  /\ SentAdded("a") = 2
  /\ SeqCount(NamesOf(db), "a") = 2

\* C20: the step that drains an ItemAdded event leaves the buffer empty
\* after the drain whatever the buffer held before it, the text typed since
\* the submission included.
C20_DrainDiscardsTypedText ==
  [][Drains("ItemAdded")
       => \A typed \in Buffers :
            new_item_name = typed => bufDrained' = ""]_vars

C20_Witness ==
  /\ running
  /\ tasks[1] = [pc |-> "done", name |-> "a"]
  /\ tasks[2].pc = "idle"
  /\ chan # <<>>
  /\ Head(chan) = ItemAdded("a")
  /\ new_item_name = "b"

====
